---- MODULE Spec2Model ----
(***************************************************************************)
(* A model of a10_saltstack/a10_client/axapi_http.py: HttpClient.request   *)
(* (the retry loop and the handling of the response) and Session (id,      *)
(* authenticate, close).                                                   *)
(*                                                                         *)
(* The module is Python 2 code (xrange, dict.iteritems, the encoding       *)
(* argument of json.dumps): the name bound by "except ... as e" is still   *)
(* bound after the except clause, so "raise e" at line 133 raises the      *)
(* exception caught last.                                                  *)
(*                                                                         *)
(* Python values: None is [t |-> "None"], a string s is Str(s), a mapping  *)
(* d is Dict(d) with d a function from its keys; a JSON object is the      *)
(* record of its members.  An attribute that is None on an exception       *)
(* (errno) is a field the record does not have.                            *)
(***************************************************************************)
EXTENDS Integers, Sequences, FiniteSets, TLC

VARIABLES
    retry_errnos,       \* HttpClient.retry_errnos
    retry_err_strings,  \* HttpClient.retry_err_strings
    pc,                 \* HttpClient.request: "idle", "loop" (about to try), "done"
    req,                \* the running request: its arguments, hdrs, payload, files
    i,                  \* the loop variable of line 108
    last_e,             \* last_e of lines 106-130
    e,                  \* the name bound by "except ... as e" (line 119)
    result,             \* how request ended: [kind |-> "return", val] or [kind |-> "raise", err]
    attempts,           \* history: calls of requests.request made by the running request
    sleeps,             \* history: calls of time.sleep made by the running request
    slept_ms,           \* history: milliseconds slept by the running request
    fails,              \* history: attempts of the running request that raised
    seen,               \* history: the kinds (ErrKind) of the errors those attempts raised
    outcome,            \* history: what the last call of requests.request did
    budget,             \* environment: retried failures the network may still inject
    class_HEADERS,      \* HttpClient.HEADERS, the mapping of the class, as it is now
    default_params,     \* the default of the parameter params (lines 65, 159-169), a
                        \* mapping made once with the method, as it is now
    caller_params,      \* the mapping the caller of the running request passed as
                        \* params, as it is now; None when the caller passed none
    made,               \* history: the kinds of request the client's user has made
    session_id,         \* Session.session_id
    username,           \* Session.username
    password,           \* Session.password
    frames,             \* the Session methods waiting for http.post, outermost first
    ret,                \* how the last Session operation ended, Pending while it runs
    calls,              \* history: what the Session asked of its collaborators, in order:
                        \* client.partition.active() and the requests of http.post that
                        \* reached requests.request
    entry,              \* history: session_id when the last Session operation began
    mark,               \* history: Len(calls) when the last Session operation began
    ops                 \* history: the Session operations started, in order

vars == <<retry_errnos, retry_err_strings, pc, req, i, last_e, e, result,
          attempts, sleeps, slept_ms, fails, seen, outcome, budget,
          class_HEADERS, default_params, caller_params, made,
          session_id, username, password, frames, ret, calls, entry, mark, ops>>

configVars == <<retry_errnos, retry_err_strings>>
transportVars == <<pc, req, i, last_e, e, result, attempts, sleeps, slept_ms,
                   fails, seen, outcome, budget,
                   class_HEADERS, default_params, caller_params>>
sessionVars == <<session_id, username, password, frames, ret, calls, entry, mark, ops>>

----------------------------------------------------------------------------
(* Bounds of the model. *)

\* Session operations in one behaviour.
MaxOps == 3
\* Retried failures the network injects into one request of the Session.
MaxFaults == 1

(* Constants of the program. *)

\* for i in xrange(0, 1500)
RetryCap == 1500
\* time.sleep(0.1)
SleepMs == 100

----------------------------------------------------------------------------
(* Python values. *)

None == [t |-> "None"]
Str(s) == [t |-> "str", s |-> s]
Dict(d) == [t |-> "dict", d |-> d]
IsNone(v) == v.t = "None"

\* d1.copy(); d1.update(d2)
Update(d1, d2) ==
    [k \in DOMAIN d1 \cup DOMAIN d2 |-> IF k \in DOMAIN d2 THEN d2[k] ELSE d1[k]]

\* d.pop(key, None) on a copy
Pop(d, key) == [k \in DOMAIN d \ {key} |-> d[k]]

\* two mappings have the same keys and values
SameMapping(d1, d2) == DOMAIN d1 = DOMAIN d2 /\ \A k \in DOMAIN d1 : d1[k] = d2[k]

\* x in list
InList(x, list) == \E k \in 1..Len(list) : list[k] = x

\* s in str(e): the text of an exception is the sequence of its fragments
Contains(text, s) == \E k \in 1..Len(text) : text[k] = s

----------------------------------------------------------------------------
(* HttpClient.__init__ *)

\* errno.errorcode, for the error numbers of the model
ErrorCode == (32 :> "EPIPE") @@ (104 :> "ECONNRESET") @@ (111 :> "ECONNREFUSED")

\* '[Errno %s]' % n
ErrnoMarker(n) == "[Errno " \o ToString(n) \o "]"

\* self.retry_errnos: [] extended by retry_errno_list unless that is None
RetryErrnos(retry_errno_list) ==
    IF IsNone(retry_errno_list) THEN <<>> ELSE <<>> \o retry_errno_list.l

\* the names of the listed error numbers that errno.errorcode knows
RECURSIVE ErrnoNames(_)
ErrnoNames(errnos) ==
    IF errnos = <<>> THEN <<>>
    ELSE (IF Head(errnos) \in DOMAIN ErrorCode
          THEN <<ErrorCode[Head(errnos)]>> ELSE <<>>) \o ErrnoNames(Tail(errnos))

\* self.retry_err_strings
RetryErrStrings(errnos) ==
    <<"BadStatusLine">> \o [k \in 1..Len(errnos) |-> ErrnoMarker(errnos[k])]
                        \o ErrnoNames(errnos)

\* the retry_errno_list arguments of the model
RetryLists == {None, [t |-> "list", l |-> <<>>], [t |-> "list", l |-> <<104, 9999>>]}

----------------------------------------------------------------------------
(* HttpClient.request *)

\* HttpClient.HEADERS
HEADERS == [ct \in {"Content-type"} |-> "application/json"]
           @@ [ua \in {"User-Agent"} |-> "ACOS-Client-AGENT"]

\* what requests.request can raise
Errors == {
    [t |-> "exc", cls |-> "socket.error", errno |-> 104,
     text |-> <<"[Errno 104]", "Connection reset by peer">>],
    [t |-> "exc", cls |-> "socket.error", errno |-> 9999,
     text |-> <<"[Errno 9999]", "Unknown error 9999">>],
    [t |-> "exc", cls |-> "socket.error", errno |-> 32,
     text |-> <<"[Errno 32]", "Broken pipe">>],
    [t |-> "exc", cls |-> "ConnectionError",
     text |-> <<"Connection aborted.", "BadStatusLine">>],
    [t |-> "exc", cls |-> "ConnectionError",
     text |-> <<"Max retries exceeded", "[Errno 104]">>],
    [t |-> "exc", cls |-> "ConnectionError",
     text |-> <<"Connection aborted.", "ECONNRESET">>],
    [t |-> "exc", cls |-> "ConnectionError",
     text |-> <<"Max retries exceeded", "[Errno 111]">>],
    [t |-> "exc", cls |-> "BadStatusLine", text |-> <<"BadStatusLine">>],
    [t |-> "exc", cls |-> "Timeout", text |-> <<"Read timed out.">>] }

\* except (socket.error, requests.exceptions.ConnectionError)
Caught(err) == err.cls \in {"socket.error", "ConnectionError"}

\* the condition of lines 121-122 taken for true: every caught error is retried
RetriesEverything(err, errnos, strings) == TRUE

\* line 121 alone: the text of the error is not looked at
ErrnoOnlyRetried(err, errnos, strings) ==
    "errno" \in DOMAIN err /\ InList(err.errno, errnos)

\* e.errno in self.retry_errnos or any(s in str(e) for s in self.retry_err_strings)
IsRetryable(err, errnos, strings) ==
    \/ "errno" \in DOMAIN err /\ InList(err.errno, errnos)
    \/ \E k \in 1..Len(strings) : Contains(err.text, strings[k])

\* the responses of the model: a status code and a body, which is either the
\* JSON document it holds or text that is no JSON
Bodies(sig) == {
    [raw |-> "<html>"],
    [json |-> <<>>],
    [json |-> [response |-> [status |-> "OK"]]],
    [json |-> [response |-> [status |-> "fail"]]],
    [json |-> [response |-> [err |-> [msg |-> "x"]]]],
    [json |-> [authorizationschema |-> [code |-> "403"]]],
    [json |-> [response |-> [status |-> "fail"],
               authorizationschema |-> [code |-> "403"]]],
    [json |-> [authresponse |-> [signature |-> sig]]],
    [json |-> [authresponse |-> [description |-> "no signature"]]] }

Responses(sig) ==
    {[t |-> "response", status_code |-> 200, body |-> b] : b \in Bodies(sig)}
    \cup {[t |-> "response", status_code |-> 204, body |-> [raw |-> ""]],
          [t |-> "response", status_code |-> 204,
           body |-> [json |-> [response |-> [status |-> "fail"]]]],
          [t |-> "response", status_code |-> 500, body |-> [raw |-> "<html>"]],
          [t |-> "response", status_code |-> 500,
           body |-> [json |-> [response |-> [status |-> "fail"]]]]}

Return(v) == [kind |-> "return", val |-> v]
Raise(err) == [kind |-> "raise", err |-> err]

\* raise ValueError("file_name and file_content must both be populated if one is")
InvalidArgument ==
    [t |-> "exc", cls |-> "ValueError",
     text |-> <<"file_name and file_content must both be populated if one is">>]

\* the ValueError of z.json() on a body that is no JSON
DecodeError == [t |-> "exc", cls |-> "ValueError", text |-> <<"No JSON object could be decoded">>]

\* acos_responses.raise_axapi_ex(r, method, api_url)
RaiseAxapiEx(r, method, api_url) ==
    Raise([t |-> "exc", cls |-> "ApiError", text |-> <<method, api_url>>, body |-> r])

\* acos_responses.raise_axapi_auth_error(r, method, api_url, headers)
RaiseAxapiAuthError(r, method, api_url, headers) ==
    Raise([t |-> "exc", cls |-> "AuthSchemaError", text |-> <<method, api_url>>, body |-> r])

\* lines 135-157 with the test of line 135 after the decoding of the body
DecodesFirst(z, rq) ==
    IF "json" \notin DOMAIN z.body
    THEN (IF z.status_code = 200 THEN Return(Dict(<<>>)) ELSE Raise(DecodeError))
    ELSE IF z.status_code = 204 THEN Return(None)
    ELSE LET r == z.body.json IN
         IF /\ "response" \in DOMAIN r
            /\ "status" \in DOMAIN r.response
            /\ r.response.status = "fail"
         THEN RaiseAxapiEx(r, rq.method, rq.api_url)
         ELSE IF "authorizationschema" \in DOMAIN r
              THEN RaiseAxapiAuthError(r, rq.method, rq.api_url, rq.headers)
              ELSE Return(Dict(r))

\* lines 135-157 with the test of line 153 before that of line 149
SchemaCheckedFirst(z, rq) ==
    IF z.status_code = 204 THEN Return(None)
    ELSE IF "json" \notin DOMAIN z.body
         THEN (IF z.status_code = 200 THEN Return(Dict(<<>>)) ELSE Raise(DecodeError))
    ELSE LET r == z.body.json IN
         IF "authorizationschema" \in DOMAIN r
         THEN RaiseAxapiAuthError(r, rq.method, rq.api_url, rq.headers)
         ELSE IF /\ "response" \in DOMAIN r
                 /\ "status" \in DOMAIN r.response
                 /\ r.response.status = "fail"
              THEN RaiseAxapiEx(r, rq.method, rq.api_url)
              ELSE Return(Dict(r))

\* lines 135-157: what request makes of the response z
HandleResponse(z, rq) ==
    IF z.status_code = 204 THEN Return(None)
    ELSE IF "json" \notin DOMAIN z.body
         THEN (IF z.status_code = 200 THEN Return(Dict(<<>>)) ELSE Raise(DecodeError))
    ELSE LET r == z.body.json IN
         IF /\ "response" \in DOMAIN r
            /\ "status" \in DOMAIN r.response
            /\ r.response.status = "fail"
         THEN RaiseAxapiEx(r, rq.method, rq.api_url)
         ELSE IF "authorizationschema" \in DOMAIN r
              THEN RaiseAxapiAuthError(r, rq.method, rq.api_url, rq.headers)
              ELSE Return(Dict(r))

\* lines 77-78 without the first line of the condition
FileNameOnlyChecked(file_name, file_content) ==
    ~IsNone(file_name) /\ IsNone(file_content)

\* lines 77-78: exactly one of file_name and file_content is None
FileArgsMismatch(file_name, file_content) ==
    \/ IsNone(file_name) /\ ~IsNone(file_content)
    \/ ~IsNone(file_name) /\ IsNone(file_content)

\* lines 82-84 and 103-104: the headers sent, built from shared, which is
\* HttpClient.HEADERS as the call finds it
Hdrs(shared, headers, file_name) ==
    LET h == IF ~IsNone(headers) /\ DOMAIN headers.d # {}
             THEN Update(shared, headers.d) ELSE shared
    IN  IF ~IsNone(file_name) THEN Pop(Pop(h, "Content-type"), "Content-Type") ELSE h

\* line 82 without the copy: hdrs is HttpClient.HEADERS itself
HeadersShared(shared, hdrs) == hdrs

\* lines 82-84 and 103-104: HttpClient.HEADERS once hdrs is built; update
\* and pop act on hdrs, the copy of line 82
HeadersLeft(shared, hdrs) == shared

\* the argument params when the caller passes none
Omitted == [t |-> "omitted"]

\* k.replace('_', '-'), for the keys of the model
Dashed(k) == CASE k = "ip_address" -> "ip-address" [] OTHER -> k

\* lines 73-74: formatted_axapi_args
FormattedAxapiArgs(axapi_args) ==
    [k \in {Dashed(a) : a \in DOMAIN axapi_args.d} |->
        axapi_args.d[CHOOSE a \in DOMAIN axapi_args.d : Dashed(a) = k]]

\* line 75: acos_client.v21.axapi_http.merge_dicts(d1, d2), a collaborator
\* outside this file: a new mapping, d1 overlaid with d2 (the mappings of the
\* model are flat); it is taken not to change d1
MergeDicts(d1, d2) == Update(d1, d2)

\* lines 65-75: the mapping that the name params is bound to after line 75,
\* passed the mapping the call began with
Params(passed, axapi_args) ==
    IF IsNone(axapi_args) THEN passed
    ELSE Dict(MergeDicts(passed.d, FormattedAxapiArgs(axapi_args)))

\* lines 72-75 with axapi_args merged into the mapping passed
MergedInPlace(passed, bound) == bound

\* lines 69-93: the mapping passed as params, once request is done with it:
\* line 75 binds the name params to a new mapping and line 87 copies before
\* json.dumps; logutils.clean (line 69), a collaborator outside this file,
\* is taken not to change its argument
ParamsLeft(passed, bound) == passed

\* lines 86-93: json.dumps of a copy of params, or None for empty params
Payload(params) ==
    IF DOMAIN params.d # {} THEN [t |-> "json", doc |-> params.d] ELSE None

\* lines 97-101: the parts of a file upload
Files(file_name, file_content, payload) ==
    IF IsNone(file_name) THEN None
    ELSE [t |-> "files",
          file |-> <<file_name.s, file_content.s, "application/octet-stream">>,
          json |-> <<"blob", payload, "application/json">>]

\* the kind of an error of requests.request, as the retry rule of request
\* sees it: its errno is listed, or only its text has a marker, or neither,
\* or the except clause does not catch it
ErrKind(err) ==
    IF ~Caught(err) THEN "uncaught"
    ELSE IF "errno" \in DOMAIN err /\ err.errno \in {retry_errnos[k] : k \in 1..Len(retry_errnos)}
         THEN "listed"
    ELSE IF \E s \in {"BadStatusLine"}
                     \cup {ErrnoMarker(retry_errnos[k]) : k \in 1..Len(retry_errnos)}
                     \cup {ErrorCode[n] : n \in {retry_errnos[k] : k \in 1..Len(retry_errnos)}
                                                  \cap DOMAIN ErrorCode} :
            \E k \in 1..Len(err.text) : err.text[k] = s
         THEN "marked"
    ELSE "plain"

\* a name that is not bound yet
Unbound == [t |-> "unbound"]
\* no request has run, no result yet
NoRequest == [method |-> "", api_url |-> ""]
NoResult == [kind |-> "none"]

\* lines 65-106: the call, up to the loop.  by is the budget of retried
\* failures the network has for this request.
StartRequest(method, api_url, params, headers, file_name, file_content, axapi_args, by) ==
    LET omitted == params.t = "omitted"
        passed == IF omitted THEN Dict(default_params) ELSE params
        bound == Params(passed, axapi_args)
        left == ParamsLeft(passed, bound)
        hdrs == Hdrs(class_HEADERS, headers, file_name)
    IN
    /\ default_params' = IF omitted THEN left.d ELSE default_params
    /\ caller_params' = IF omitted THEN None ELSE left
    /\ attempts' = 0
    /\ sleeps' = 0
    /\ slept_ms' = 0
    /\ fails' = 0
    /\ seen' = {}
    /\ outcome' = Unbound
    /\ budget' = by
    /\ i' = 0
    /\ e' = Unbound
    /\ IF FileArgsMismatch(file_name, file_content)
       THEN /\ pc' = "done"
            /\ result' = Raise(InvalidArgument)
            /\ last_e' = Unbound
            /\ class_HEADERS' = class_HEADERS
            /\ req' = [method |-> method, api_url |-> api_url, params |-> params,
                       headers |-> headers, file_name |-> file_name,
                       file_content |-> file_content, axapi_args |-> axapi_args]
       ELSE /\ pc' = "loop"
            /\ result' = NoResult
            /\ last_e' = None
            /\ class_HEADERS' = HeadersLeft(class_HEADERS, hdrs)
            /\ req' = [method |-> method, api_url |-> api_url, params |-> params,
                       headers |-> headers, file_name |-> file_name,
                       file_content |-> file_content, axapi_args |-> axapi_args,
                       hdrs |-> hdrs,
                       payload |-> Payload(bound),
                       files |-> Files(file_name, file_content, Payload(bound))]

\* line 110 left out: last_e keeps the error of the attempt before
LastEKept(le) == le

\* line 110: last_e as each try begins
LastEAtTry(le) == None

\* line 108 with xrange(1, 1500)
LoopEndsEarly(k) == k = RetryCap - 2

\* line 108 with a loop that no turn ends
LoopNeverEnds(k) == FALSE

\* line 108: the turn with loop variable k is the last one of xrange(0, 1500)
LoopEnds(k) == k = RetryCap - 1

\* line 108 with a loop variable that stays where it is
SameTurn(k) == k

\* line 108: the loop variable of the turn after turn k
NextTurn(k) == k + 1

\* lines 128-157, after the loop has ended with last_e = le and e = ex
AfterLoop(le, ex, z, rq) ==
    IF ~IsNone(le) THEN Raise(ex) ELSE HandleResponse(z, rq)

LoginUrl == "/axapi/v3/auth"
LogoffUrl == "/axapi/v3/logoff"
IsRequest(c) == c.what = "request"
IsLogin(c) == IsRequest(c) /\ c.api_url = LoginUrl
IsLogoff(c) == IsRequest(c) /\ c.api_url = LogoffUrl

\* the signature the server gives in its answer: the logins the Session has
\* put on the wire number them
Signature(log) == Len(SelectSeq(log, IsLogin))

\* the first attempt of a request of the Session puts the request on the wire
Logged ==
    IF frames # <<>> /\ attempts = 0
    THEN Append(calls, [what |-> "request", api_url |-> req.api_url,
                        hdrs |-> req.hdrs, payload |-> req.payload])
    ELSE calls

\* lines 108-118 and 128-157: requests.request answers with z, the loop
\* breaks and request handles the response
AttemptAnswered(z) ==
    /\ pc = "loop"
    /\ attempts' = attempts + 1
    /\ outcome' = z
    /\ pc' = "done"
    /\ last_e' = LastEAtTry(last_e)
    /\ result' = AfterLoop(LastEAtTry(last_e), e, z, req)
    /\ calls' = Logged
    /\ UNCHANGED <<req, i, e, sleeps, slept_ms, fails, seen, budget>>

\* lines 108-133: requests.request raises err
AttemptRaised(err) ==
    /\ pc = "loop"
    /\ attempts' = attempts + 1
    /\ fails' = fails + 1
    /\ seen' = seen \cup {ErrKind(err)}
    /\ outcome' = err
    /\ calls' = Logged
    /\ UNCHANGED req
    /\ IF ~Caught(err)
       THEN \* no except clause takes it: it leaves request
            /\ pc' = "done"
            /\ last_e' = LastEAtTry(last_e)
            /\ result' = Raise(err)
            /\ UNCHANGED <<i, e, sleeps, slept_ms, budget>>
       ELSE IF IsRetryable(err, retry_errnos, retry_err_strings)
       THEN \* time.sleep(0.1); last_e = e; continue
            /\ budget > 0
            /\ budget' = budget - 1
            /\ sleeps' = sleeps + 1
            /\ slept_ms' = slept_ms + SleepMs
            /\ e' = err
            /\ last_e' = err
            /\ IF LoopEnds(i)
               THEN \* the loop is over: lines 128-133
                    /\ pc' = "done"
                    /\ result' = AfterLoop(err, err, Unbound, req)
                    /\ i' = i
               ELSE /\ pc' = "loop"
                    /\ result' = result
                    /\ i' = NextTurn(i)
       ELSE \* raise e
            /\ pc' = "done"
            /\ e' = err
            /\ last_e' = LastEAtTry(last_e)
            /\ result' = Raise(err)
            /\ UNCHANGED <<i, sleeps, slept_ms, budget>>

\* one turn of the loop of lines 108-126, with what follows the loop when
\* the turn ends it.  An error is tagged with the attempt that raised it.
Attempt ==
    /\ \/ \E err \in Errors : AttemptRaised([at |-> attempts + 1] @@ err)
       \/ \E z \in Responses(Signature(Logged)) : AttemptAnswered(z)
    /\ UNCHANGED <<configVars, class_HEADERS, default_params, caller_params, made,
                   session_id, username, password, frames, ret, entry, mark, ops>>

\* the arguments of the requests made of HttpClient directly
FileNames == {None, Str("cert.pem")}
FileContents == {None, Str("PEM")}
\* lines 159-169: get, post, put and delete pass their arguments to request
Methods == {"GET", "POST", "PUT", "DELETE"}
ParamsArgs == {Omitted, Dict(<<>>), Dict([name |-> "s1"])}
HeadersArgs == {None, Dict(("Content-Type" :> "text/xml") @@ ("Accept" :> "text/xml"))}
AxapiArgs == {None, Dict([ip_address |-> "10.0.0.1"])}

\* HttpClient.request called by the client's user (not by the Session), with
\* params and headers from the given sets; the network may fail it by times
Request(methods, params_set, headers_set, axapi_set, by) ==
    /\ pc \in {"idle", "done"}
    /\ frames = <<>>
    /\ \E method \in methods, params \in params_set, headers \in headers_set,
          file_name \in FileNames, file_content \in FileContents,
          axapi_args \in axapi_set :
            StartRequest(method, "/axapi/v3/file/ssl-cert", params, headers,
                         file_name, file_content, axapi_args, by)
    /\ UNCHANGED <<configVars, sessionVars>>

\* a request that the network may fail as often as the loop retries
RetriedRequest ==
    /\ Request({"POST"}, {Dict([name |-> "s1"])}, {None}, {None}, RetryCap)
    /\ UNCHANGED made

\* the kind of a request that has built its headers from headers of the
\* caller and has dropped the content type for its file
Kinds(rq) ==
    IF "hdrs" \in DOMAIN rq /\ ~IsNone(rq.file_name) /\ ~IsNone(rq.headers)
    THEN {"upload with headers"} ELSE {}

\* request, get, post, put or delete called by the client's user with any
\* of the arguments of the model
ClientRequest ==
    /\ Request(Methods, ParamsArgs, HeadersArgs, AxapiArgs, MaxFaults)
    /\ made' = made \cup Kinds(req')

----------------------------------------------------------------------------
(* Session *)

\* lines 189-194: payload of authenticate
Credentials(u, p) == Dict([credentials |-> [username |-> u, password |-> p]])

\* '%s' % v for a string or None
Format(v) == IF IsNone(v) THEN "None" ELSE v.s

\* line 217: h = {'Authorization': "A10 %s" % self.session_id}
AuthHeader(sid) == Dict([Authorization |-> "A10 " \o Format(sid)])

\* what client.partition.active() can do, and the error it raises (an
\* instance of Exception).  The partition object is a collaborator outside
\* this file; its call is taken not to touch the Session.
PartitionOutcomes == {"returns", "raises"}
PartitionError == [t |-> "exc", cls |-> "Exception", text |-> <<"partition.active">>]

\* lines 208-211 without the try: the error of client.partition.active()
\* leaves close
PartitionErrorEscapes(po) == TRUE

\* lines 208-211: an error of client.partition.active() leaves close
PartitionPropagates(po) == FALSE

\* lines 216-220 with the assignment after the try instead of in a finally
TokenKeptOnError(res, sid) == IF res.kind = "raise" THEN sid ELSE None

\* lines 216-220 without line 220
TokenKept(res, sid) == sid

\* lines 216-220: session_id after the logoff, which ended with res
TokenAfterLogoff(res, sid) == None

\* line 183 taken for true: every read logs in
AlwaysLogsIn(sid) == TRUE

\* line 183
NeedsLogin(sid) == IsNone(sid)

\* line 213 taken for false: close always logs off
AlwaysLogsOff(sid) == FALSE

\* line 213
NothingToLogOff(sid) == IsNone(sid)

\* lines 187-205 with the arguments stored in the Session
AccountOverwritten(u, p, su, sp) == <<u, p>>

\* lines 187-205: self.username and self.password after authenticate(u, p),
\* which assigns neither
AccountAfterAuthenticate(u, p, su, sp) == <<su, sp>>

\* line 196 taken for false: authenticate never closes
NeverCloses(sid) == FALSE

\* line 196
MustClose(sid) == ~IsNone(sid)

\* the TypeError of '"authresponse" in r' when r is None, and the KeyError of
\* r['authresponse']['signature']
NoneNotIterable ==
    [t |-> "exc", cls |-> "TypeError",
     text |-> <<"argument of type 'NoneType' is not iterable">>]
NoSignatureKey == [t |-> "exc", cls |-> "KeyError", text |-> <<"signature">>]

\* lines 200-205: session_id and the result of authenticate once the login
\* has returned r
AfterLogin(r, sid) ==
    IF IsNone(r) THEN [sid |-> sid, res |-> Raise(NoneNotIterable)]
    ELSE IF "authresponse" \in DOMAIN r.d
         THEN (IF "signature" \in DOMAIN r.d.authresponse
               THEN [sid |-> Str(ToString(r.d.authresponse.signature)),
                     res |-> Return(r)]
               ELSE [sid |-> sid, res |-> Raise(NoSignatureKey)])
         ELSE [sid |-> None, res |-> Return(r)]

\* ret while an operation runs
Pending == [op |-> "none"]

Frame(m) == [m |-> m]
AuthFrame(u, p) == [m |-> "authenticate", username |-> u, password |-> p]

\* request has returned to the Session: its frame is gone
Returned ==
    /\ pc' = "idle"
    /\ req' = NoRequest
    /\ i' = 0
    /\ last_e' = Unbound
    /\ e' = Unbound
    /\ result' = NoResult
    /\ attempts' = 0
    /\ sleeps' = 0
    /\ slept_ms' = 0
    /\ fails' = 0
    /\ seen' = {}
    /\ outcome' = Unbound
    /\ budget' = 0
    /\ caller_params' = None
    /\ UNCHANGED <<class_HEADERS, default_params>>

\* a Session operation ends with res; an error leaves every waiting method
Finished(op, res) ==
    /\ ret' = [op |-> op, res |-> res]
    /\ frames' = <<>>

\* line 199: r = self.http.post(url, payload), with fr the methods waiting
Login(u, p, fr) ==
    /\ StartRequest("POST", LoginUrl, Credentials(u, p), None, None, None, None,
                    MaxFaults)
    /\ frames' = fr

\* lines 207-222: close(), called with the methods of below waiting, up to
\* its http.post; po is what client.partition.active() does
CloseBody(po, below) ==
    /\ calls' = Append(calls, [what |-> "partition.active", outcome |-> po])
    /\ IF po = "raises" /\ PartitionPropagates(po)
       THEN /\ Finished(IF below = <<>> THEN "close" ELSE below[1].m,
                        Raise(PartitionError))
            /\ UNCHANGED <<session_id, transportVars>>
       ELSE IF NothingToLogOff(session_id)
       THEN \* line 214: return
            /\ UNCHANGED session_id
            /\ IF below = <<>>
               THEN /\ Finished("close", Return(None))
                    /\ UNCHANGED transportVars
               ELSE /\ Login(below[Len(below)].username, below[Len(below)].password,
                             below)
                    /\ ret' = Pending
       ELSE \* line 218: r = self.http.post('/axapi/v3/logoff', headers=h)
            /\ StartRequest("POST", LogoffUrl, Omitted, AuthHeader(session_id),
                            None, None, None, MaxFaults)
            /\ frames' = Append(below, Frame("close"))
            /\ ret' = Pending
            /\ UNCHANGED session_id

\* lines 187-199: authenticate(u, p), called with the methods of below
\* waiting, up to its first http.post
AuthenticateBody(u, p, below) ==
    IF MustClose(session_id)
    THEN \E po \in PartitionOutcomes : CloseBody(po, Append(below, AuthFrame(u, p)))
    ELSE /\ Login(u, p, Append(below, AuthFrame(u, p)))
         /\ ret' = Pending
         /\ UNCHANGED <<session_id, calls>>

\* no Session operation is running
Idle == frames = <<>> /\ pc = "idle"

\* the Session operation op begins
Begin(op) ==
    /\ Idle
    /\ Len(ops) < MaxOps
    /\ ops' = Append(ops, op)
    /\ entry' = session_id
    /\ mark' = Len(calls)
    /\ UNCHANGED <<configVars, made>>

\* lines 181-185: a read of Session.id, up to the http.post of authenticate
IdRead ==
    /\ Begin("id")
    /\ IF NeedsLogin(session_id)
       THEN AuthenticateBody(username, password, <<Frame("id")>>)
       ELSE /\ Finished("id", Return(session_id))
            /\ UNCHANGED <<session_id, calls, transportVars>>
    /\ UNCHANGED <<username, password>>

\* the credentials the Session is constructed with (lines 175-176), and
\* those authenticate is called with
Account == <<"admin", "a10">>
Accounts == {Account, <<"guest", "guest">>}

\* Session.authenticate(u, p), up to its first http.post
Authenticate ==
    /\ Begin("authenticate")
    /\ \E c \in Accounts :
         /\ AuthenticateBody(c[1], c[2], <<>>)
         /\ username' = AccountAfterAuthenticate(c[1], c[2], username, password)[1]
         /\ password' = AccountAfterAuthenticate(c[1], c[2], username, password)[2]

\* Session.close(), up to its http.post
Close ==
    /\ Begin("close")
    /\ \E po \in PartitionOutcomes : CloseBody(po, <<>>)
    /\ UNCHANGED <<username, password>>

\* lines 216-222: the http.post of close has ended
LogoffReturned ==
    /\ pc = "done"
    /\ frames # <<>>
    /\ frames[Len(frames)].m = "close"
    /\ session_id' = TokenAfterLogoff(result, session_id)
    /\ LET below == SubSeq(frames, 1, Len(frames) - 1) IN
       IF result.kind = "raise"
       THEN /\ Finished(frames[1].m, result)
            /\ Returned
       ELSE IF below = <<>>
       THEN /\ Finished("close", result)
            /\ Returned
       ELSE \* close returns into authenticate: line 199
            /\ Login(below[Len(below)].username, below[Len(below)].password, below)
            /\ UNCHANGED ret
    /\ UNCHANGED <<configVars, made, username, password, calls, entry, mark, ops>>

\* lines 199-205 and 185: the http.post of authenticate has ended
LoginReturned ==
    /\ pc = "done"
    /\ frames # <<>>
    /\ frames[Len(frames)].m = "authenticate"
    /\ IF result.kind = "raise"
       THEN /\ Finished(frames[1].m, result)
            /\ UNCHANGED session_id
       ELSE LET a == AfterLogin(result.val, session_id) IN
            /\ session_id' = a.sid
            /\ IF frames[1].m = "id" /\ a.res.kind = "return"
               THEN Finished("id", Return(a.sid))
               ELSE Finished(frames[1].m, a.res)
    /\ Returned
    /\ UNCHANGED <<configVars, made, username, password, calls, entry, mark, ops>>

----------------------------------------------------------------------------
(* The specifications. *)

\* HttpClient.__init__ and Session.__init__
Init ==
    /\ \E retry_errno_list \in RetryLists :
         /\ retry_errnos = RetryErrnos(retry_errno_list)
         /\ retry_err_strings = RetryErrStrings(RetryErrnos(retry_errno_list))
    /\ pc = "idle"
    /\ req = NoRequest
    /\ i = 0
    /\ last_e = Unbound
    /\ e = Unbound
    /\ result = NoResult
    /\ attempts = 0
    /\ sleeps = 0
    /\ slept_ms = 0
    /\ fails = 0
    /\ seen = {}
    /\ outcome = Unbound
    /\ budget = 0
    /\ class_HEADERS = HEADERS
    /\ default_params = <<>>
    /\ caller_params = None
    /\ made = {}
    /\ session_id = None
    /\ username = Account[1]
    /\ password = Account[2]
    /\ frames = <<>>
    /\ ret = Pending
    /\ calls = <<>>
    /\ entry = None
    /\ mark = 0
    /\ ops = <<>>

\* the requests made of HttpClient directly
Next == RetriedRequest \/ Attempt

Spec == Init /\ [][Next]_vars

\* the first request of a new client, with no file, that the network may
\* fail as often as the loop retries
FirstRequest ==
    /\ pc = "idle"
    /\ frames = <<>>
    /\ StartRequest("POST", "/axapi/v3/slb/server", Dict([name |-> "s1"]), None,
                    None, None, None, RetryCap)
    /\ UNCHANGED <<configVars, sessionVars, made>>

NextLive == FirstRequest \/ Attempt

\* that request, every turn of the loop taking place: requests.request
\* answers or raises, and the loop goes on by itself
SpecLive == Init /\ [][NextLive]_vars /\ WF_vars(Attempt)

\* the requests of every form made of HttpClient directly
NextClient == ClientRequest \/ Attempt

SpecClient == Init /\ [][NextClient]_vars

\* the operations of the Session and the requests they make
NextSession ==
    IdRead \/ Authenticate \/ Close \/ Attempt \/ LogoffReturned \/ LoginReturned

SpecSession == Init /\ [][NextSession]_vars

----------------------------------------------------------------------------
(* HttpClient.request: the retry loop *)

\* the running request has ended
Ended == pc = "done" /\ result.kind # "none"

\* C1: a request whose first N attempts (0 <= N < 1500) fail with a caught
\* error whose errno is in the retry list, and whose next attempt is answered,
\* ends with what the handling of that answer gives, after exactly N + 1
\* attempts and exactly N sleeps of 100 ms.
C1_RetriedThenAnswered ==
    (Ended /\ outcome.t = "response" /\ seen \subseteq {"listed"})
        => /\ fails < RetryCap
           /\ result = HandleResponse(outcome, req)
           /\ attempts = fails + 1
           /\ sleeps = fails
           /\ slept_ms = fails * SleepMs

C1_Witness ==
    /\ Ended /\ outcome.t = "response" /\ seen = {"listed"}
    /\ fails = RetryCap - 1
    /\ result.kind = "return"

\* C2: a request all of whose attempts fail with retried errors makes exactly
\* 1500 attempts and raises the error of the 1500th; no request makes more
\* than 1500 attempts.
C2_ExhaustedRaisesLast ==
    /\ attempts <= RetryCap
    /\ (Ended /\ attempts > 0 /\ fails = attempts /\ seen \subseteq {"listed", "marked"})
        => /\ attempts = RetryCap
           /\ outcome.at = RetryCap
           /\ result = Raise(outcome)

C2_Witness ==
    /\ Ended /\ fails = attempts /\ seen = {"listed", "marked"}
    /\ attempts = RetryCap
    /\ result.kind = "raise"

\* C3: an attempt that fails with a caught error whose errno is not listed and
\* whose text has no marker ends the request at once: that error is raised,
\* with no sleep after it and no further attempt, after any number of
\* retried failures.
C3_PlainErrorRaisedAtOnce ==
    /\ pc = "loop" => "plain" \notin seen
    /\ (Ended /\ "plain" \in seen)
        => /\ outcome.t = "exc"
           /\ ErrKind(outcome) = "plain"
           /\ outcome.at = attempts
           /\ result = Raise(outcome)
           /\ attempts = fails
           /\ sleeps = fails - 1
           /\ slept_ms = (fails - 1) * SleepMs

C3_Witness ==
    /\ Ended /\ "plain" \in seen /\ "listed" \in seen /\ "marked" \in seen
    /\ fails = 4
    /\ result.kind = "raise"

\* C3, its first case: the first attempt fails so.
C3_WitnessFirst == Ended /\ seen = {"plain"} /\ attempts = 1 /\ sleeps = 0

\* C10: a request with exactly one of file_name and file_content set raises
\* the invalid-argument error and makes no attempt; a request with both or
\* neither never raises it.
C10_FileArguments ==
    pc # "idle" =>
        IF IsNone(req.file_name) # IsNone(req.file_content)
        THEN pc = "done" /\ result = Raise(InvalidArgument) /\ attempts = 0
        ELSE result # Raise(InvalidArgument)

C10_Witness ==
    /\ Ended /\ ~IsNone(req.file_name) /\ IsNone(req.file_content)
    /\ result = Raise(InvalidArgument)

C10_WitnessOther ==
    /\ Ended /\ IsNone(req.file_name) /\ ~IsNone(req.file_content)
    /\ result = Raise(InvalidArgument)

C10_WitnessBoth ==
    /\ Ended /\ ~IsNone(req.file_name) /\ ~IsNone(req.file_content)
    /\ result.kind = "raise" /\ result.err.cls = "ValueError"

\* C14: every request ends, by a result or an error, after at most 1500
\* attempts: no run of retried failures keeps the loop going, as each turn
\* makes one attempt and advances the loop variable, which stays below 1500.
C14_Terminates ==
    /\ [](/\ attempts <= RetryCap
          /\ pc = "loop" => attempts = i /\ i < RetryCap)
    /\ (pc = "loop") ~> (pc = "done" /\ result.kind \in {"return", "raise"})

C14_Witness ==
    pc = "done" /\ attempts = RetryCap /\ fails = RetryCap /\ result.kind = "raise"

\* err was raised by requests.request and request went on to another attempt
Retried == pc = "loop" /\ attempts > 0
\* request ended on the error of an attempt that was not the last of the loop
GaveUp == Ended /\ outcome.t = "exc" /\ attempts < RetryCap

\* C15: a failed attempt is retried exactly when its error is a socket or
\* connection error and its errno is listed or its text has a marker
\* ("BadStatusLine", "[Errno n]" or the name of n, for a listed n); with an
\* empty or omitted list, exactly when it is such an error and its text has
\* "BadStatusLine".
C15_RetriedIffListedOrMarked ==
    /\ Retried => ErrKind(outcome) \in {"listed", "marked"}
    /\ GaveUp => ErrKind(outcome) \in {"plain", "uncaught"}
    /\ retry_errnos = <<>>
        => /\ Retried => Caught(outcome) /\ Contains(outcome.text, "BadStatusLine")
           /\ GaveUp => ~(Caught(outcome) /\ Contains(outcome.text, "BadStatusLine"))

C15_Witness ==
    /\ Retried /\ retry_errnos = <<>>
    /\ Contains(outcome.text, "BadStatusLine")
    /\ "errno" \notin DOMAIN outcome

\* C15, its other cases
C15_WitnessName == Retried /\ Contains(outcome.text, "ECONNRESET")
C15_WitnessMarker == Retried /\ outcome.cls = "ConnectionError" /\ Contains(outcome.text, "[Errno 104]")
C15_WitnessUncaught == GaveUp /\ ~Caught(outcome) /\ Contains(outcome.text, "BadStatusLine")
C15_WitnessUnlisted ==
    GaveUp /\ retry_errnos = <<>> /\ "errno" \in DOMAIN outcome /\ outcome.errno = 104

----------------------------------------------------------------------------
(* HttpClient.request: the handling of the response *)

\* the request has ended on an answer of requests.request
Answered == Ended /\ outcome.t = "response"

\* the body of z is a JSON document whose response.status is "fail"
SaysFail(z) ==
    /\ "json" \in DOMAIN z.body
    /\ "response" \in DOMAIN z.body.json
    /\ "status" \in DOMAIN z.body.json.response
    /\ z.body.json.response.status = "fail"

\* C11: status 204 gives None (which is not the empty mapping) whatever the
\* body; otherwise a body that is no JSON gives the empty mapping when the
\* status is 200 and the decode error for every other status.
C11_StatusAndBody ==
    Answered =>
        /\ outcome.status_code = 204
            => result = Return(None) /\ result # Return(Dict(<<>>))
        /\ (outcome.status_code # 204 /\ "json" \notin DOMAIN outcome.body)
            => IF outcome.status_code = 200
               THEN result = Return(Dict(<<>>))
               ELSE result = Raise(DecodeError)

C11_Witness ==
    /\ Answered /\ outcome.status_code = 204 /\ "raw" \in DOMAIN outcome.body
    /\ result = Return(None)
    /\ fails > 0

\* C11, its other cases
C11_WitnessEmpty ==
    Answered /\ outcome.status_code = 200 /\ result = Return(Dict(<<>>))
             /\ "raw" \in DOMAIN outcome.body
C11_WitnessDecode == Answered /\ outcome.status_code = 500 /\ result = Raise(DecodeError)

\* C12: a decoded body whose response.status is "fail" goes, with the method
\* and the path, to the translation of API errors, which raises ApiError,
\* before the authorizationschema test; no other body does.
C12_FailStatusTranslated ==
    (Answered /\ outcome.status_code # 204 /\ "json" \in DOMAIN outcome.body)
        => IF SaysFail(outcome)
           THEN /\ result = RaiseAxapiEx(outcome.body.json, req.method, req.api_url)
                /\ result.err.cls = "ApiError"
                /\ result.err.text = <<req.method, req.api_url>>
           ELSE result.kind = "raise" => result.err.cls # "ApiError"

C12_Witness ==
    /\ Answered /\ SaysFail(outcome)
    /\ "authorizationschema" \in DOMAIN outcome.body.json
    /\ result.kind = "raise" /\ result.err.cls = "ApiError"

\* C12, a body with a response that has no status
C12_WitnessNoStatus ==
    /\ Answered /\ "json" \in DOMAIN outcome.body
    /\ "response" \in DOMAIN outcome.body.json
    /\ "status" \notin DOMAIN outcome.body.json.response
    /\ result.kind = "return"

----------------------------------------------------------------------------
(* HttpClient.request: the mappings it is given *)

\* a request is running or has ended, and nothing has taken its frame away
Called == pc # "idle"

\* C13: request (and get, post, put, delete, which pass their arguments on)
\* leaves the mapping passed as params with the keys and values it had, and
\* leaves the default mapping, used when the caller passes none, empty.
C13_ParamsNotMutated ==
    /\ DOMAIN default_params = {}
    /\ Called
        => IF req.params.t = "omitted"
           THEN IsNone(caller_params)
           ELSE /\ ~IsNone(caller_params)
                /\ SameMapping(caller_params.d, req.params.d)

C13_Witness ==
    /\ Called /\ result.kind = "return"
    /\ req.method = "PUT"
    /\ req.params = Dict([name |-> "s1"])
    /\ ~IsNone(req.axapi_args)
    /\ DOMAIN req.payload.doc = {"name", "ip-address"}
    /\ DOMAIN caller_params.d = {"name"}

\* C13, the default mapping: the payload has the merged arguments, the
\* default is still empty
C13_WitnessDefault ==
    /\ Called /\ result.kind = "return"
    /\ req.params.t = "omitted"
    /\ ~IsNone(req.axapi_args)
    /\ DOMAIN req.payload.doc = {"ip-address"}
    /\ DOMAIN default_params = {}

\* C17: HttpClient.HEADERS keeps its two headers whatever requests are made,
\* and a request without headers of the caller and without a file is sent
\* with exactly these two.
C17_DefaultHeadersKept ==
    /\ SameMapping(class_HEADERS, HEADERS)
    /\ (Called /\ "hdrs" \in DOMAIN req /\ IsNone(req.headers) /\ IsNone(req.file_name))
        => SameMapping(req.hdrs, HEADERS)

C17_Witness ==
    /\ made = {"upload with headers"}
    /\ Called /\ attempts > 0
    /\ IsNone(req.headers) /\ IsNone(req.file_name)
    /\ DOMAIN req.hdrs = {"Content-type", "User-Agent"}
    /\ req.hdrs["Content-type"] = "application/json"

\* C17, the requests that change their own headers: a file upload with
\* headers of the caller is sent with no content type
C17_WitnessUpload ==
    /\ Called /\ attempts > 0
    /\ ~IsNone(req.headers) /\ ~IsNone(req.file_name)
    /\ DOMAIN req.hdrs = {"User-Agent", "Accept"}
    /\ SameMapping(class_HEADERS, HEADERS)

----------------------------------------------------------------------------
(* Session *)

\* the operation the Session ran last, what it asked of its collaborators,
\* and the requests among that
LastOp == ops[Len(ops)]
Since == SubSeq(calls, mark + 1, Len(calls))
RequestsSince == SelectSeq(Since, IsRequest)
Logins == SelectSeq(calls, IsLogin)
CarriesToken(c, sid) == c.hdrs.Authorization = "A10 " \o sid.s

\* C4 as claimed: two reads of Session.id in a row issue exactly one login.
C4_TwoReadsOneLogin ==
    (ret.op = "id" /\ ops = <<"id", "id">>) => Len(Logins) = 1

\* C4: a read of Session.id that follows a read which returned a token, with
\* no close() in between, returns that token and issues no request; on a new
\* Session the two reads have issued exactly one login in total.
C4_MemoizedToken ==
    (/\ ret.op = "id"
     /\ Len(ops) >= 2
     /\ ops[Len(ops) - 1] = "id"
     /\ ~IsNone(entry))
        => /\ ret.res = Return(entry)
           /\ session_id = entry
           /\ Len(calls) = mark
           /\ ops = <<"id", "id">> => Len(calls) = 1 /\ IsLogin(calls[1])

C4_Witness ==
    /\ ret.op = "id" /\ ops = <<"id", "id">> /\ ~IsNone(entry)
    /\ ret.res = Return(entry)

\* C5 as claimed: authenticate called with a token cached issues a logoff
\* carrying that token and then a login, in every execution.
C5_LogoffThenLoginAlways ==
    (ret.op = "authenticate" /\ ~IsNone(entry))
        => /\ Len(RequestsSince) = 2
           /\ IsLogoff(RequestsSince[1]) /\ CarriesToken(RequestsSince[1], entry)
           /\ IsLogin(RequestsSince[2])

\* C5: authenticate called with a token cached first issues a logoff carrying
\* that token and, when that request returns, then a login, in that order;
\* when it ends with only the logoff issued it has raised and the token is
\* absent.
C5_LogoffBeforeLogin ==
    (ops # <<>> /\ LastOp = "authenticate" /\ ~IsNone(entry))
        => /\ Len(RequestsSince) <= 2
           /\ Len(RequestsSince) >= 1
                => IsLogoff(RequestsSince[1]) /\ CarriesToken(RequestsSince[1], entry)
           /\ Len(RequestsSince) = 2 => IsLogin(RequestsSince[2])
           /\ ret.op = "authenticate"
                => /\ Len(RequestsSince) >= 1
                   /\ Len(RequestsSince) = 1
                        => ret.res.kind = "raise" /\ IsNone(session_id)

C5_Witness ==
    /\ ret.op = "authenticate" /\ ~IsNone(entry)
    /\ Len(RequestsSince) = 2
    /\ ret.res.kind = "return" /\ ~IsNone(session_id)

\* C5, the case the claim is wrong about: the logoff raised.
C5_WitnessLogoffRaised ==
    ret.op = "authenticate" /\ ~IsNone(entry) /\ Len(RequestsSince) = 1

\* C6: when close() runs with a token cached and its logoff raises, the token
\* is absent when close ends (also when authenticate called close).
C6_TokenClearedOnFailedLogoff ==
    /\ (ret.op = "close" /\ ~IsNone(entry) /\ ret.res.kind = "raise")
        => /\ IsNone(session_id)
           /\ Len(RequestsSince) = 1 /\ IsLogoff(RequestsSince[1])
    /\ (ret.op = "authenticate" /\ ~IsNone(entry) /\ Len(RequestsSince) = 1)
        => IsNone(session_id)

C6_Witness ==
    /\ ret.op = "close" /\ ~IsNone(entry) /\ ret.res.kind = "raise"
    /\ IsNone(session_id)

\* C7: a token that a read of Session.id returns was never carried by a
\* logoff, and a login was put on the wire after every entry into close()
\* (which begins with client.partition.active()).  The server signs every
\* login with a new signature.
C7_NoStaleToken ==
    (ret.op = "id" /\ ret.res.kind = "return" /\ ~IsNone(ret.res.val))
        => /\ ret.res.val = session_id
           /\ \A k \in 1..Len(calls) :
                IsLogoff(calls[k]) => ~CarriesToken(calls[k], ret.res.val)
           /\ \A k \in 1..Len(calls) :
                calls[k].what = "partition.active"
                    => \E j \in (k + 1)..Len(calls) : IsLogin(calls[j])

C7_Witness ==
    /\ ret.op = "id" /\ ret.res.kind = "return" /\ ~IsNone(ret.res.val)
    /\ ops = <<"id", "close", "id">>
    /\ \E k \in 1..Len(calls) : IsLogoff(calls[k])

\* r has a signature, as line 201 reads it
HasSignature(r) ==
    /\ ~IsNone(r)
    /\ "authresponse" \in DOMAIN r.d
    /\ "signature" \in DOMAIN r.d.authresponse

\* C8: when the login answers with no signature, authenticate raises
\* nothing, returns the response and leaves the token absent.
C8_NoSignatureNoFailure ==
    [][(/\ pc = "done"
        /\ frames # <<>>
        /\ frames[Len(frames)].m = "authenticate"
        /\ result.kind = "return"
        /\ ~HasSignature(result.val))
            => /\ ret'.op # "none"
               /\ ret'.res.kind = "return"
               /\ ret'.op = "authenticate" => ret'.res = result
               /\ IsNone(session_id')]_vars

\* C9: close() calls client.partition.active() before anything else, and
\* whatever that does its error never leaves close, the logoff is issued when
\* a token is cached, and the token is absent afterwards.
C9_PartitionErrorSwallowed ==
    /\ (ops # <<>> /\ LastOp = "close")
        => Len(calls) > mark /\ calls[mark + 1].what = "partition.active"
    /\ ret.op = "close"
        => /\ ret.res # Raise(PartitionError)
           /\ IsNone(session_id)
           /\ ~IsNone(entry)
                => /\ Len(Since) = 2
                   /\ IsLogoff(Since[2]) /\ CarriesToken(Since[2], entry)

C9_Witness ==
    /\ ret.op = "close" /\ ~IsNone(entry)
    /\ calls[mark + 1].what = "partition.active" /\ calls[mark + 1].outcome = "raises"
    /\ Len(Since) = 2 /\ IsLogoff(Since[2])
    /\ IsNone(session_id)

\* the login that authenticate has put on the wire is still running or has
\* just ended
LoginOnWire ==
    /\ frames # <<>>
    /\ frames[Len(frames)].m = "authenticate"
    /\ attempts > 0
    /\ Len(calls) > mark
    /\ IsLogin(calls[Len(calls)])

\* the credentials a login carries
Carried(c) == <<c.payload.doc.credentials.username, c.payload.doc.credentials.password>>

\* C16: when the login that authenticate posts raises, the token is absent
\* when authenticate ends, whether a token was cached when it began or not
\* (also when a read of Session.id called authenticate).
C16_FailedLoginLeavesNoToken ==
    (/\ ret.op \in {"authenticate", "id"}
     /\ ret.res.kind = "raise"
     /\ RequestsSince # <<>>
     /\ IsLogin(RequestsSince[Len(RequestsSince)]))
        => IsNone(session_id)

C16_Witness ==
    /\ ret.op = "authenticate" /\ ~IsNone(entry)
    /\ Len(RequestsSince) = 2 /\ IsLogin(RequestsSince[2])
    /\ ret.res.kind = "raise" /\ ret.res.err.cls = "Timeout"
    /\ IsNone(session_id)

\* C16, the case of no token cached before
C16_WitnessFresh ==
    /\ ret.op = "authenticate" /\ IsNone(entry)
    /\ Len(RequestsSince) = 1 /\ IsLogin(RequestsSince[1])
    /\ ret.res.kind = "raise" /\ ret.res.err.cls = "Timeout"
    /\ IsNone(session_id)

\* C18: close() called with no token cached calls client.partition.active()
\* and nothing else: no request is issued, None is returned and the token is
\* still absent.
C18_CloseWithoutToken ==
    /\ (ops # <<>> /\ LastOp = "close" /\ IsNone(entry))
        => /\ RequestsSince = <<>>
           /\ pc = "idle"
    /\ (ret.op = "close" /\ IsNone(entry))
        => /\ Len(Since) = 1 /\ Since[1].what = "partition.active"
           /\ ret.res = Return(None)
           /\ IsNone(session_id)

C18_Witness ==
    /\ ret.op = "close" /\ IsNone(entry)
    /\ Len(Since) = 1 /\ Since[1].outcome = "raises"
    /\ ret.res = Return(None)
    /\ IsNone(session_id)

\* C19: no operation changes the username and password the Session was
\* constructed with; the login of authenticate(u, p) carries u and p, and the
\* login of a read of Session.id carries the constructor's pair, whatever
\* authenticate was called with before.
C19_StoredCredentialsKept ==
    /\ <<username, password>> = Account
    /\ LoginOnWire
        => /\ frames[1].m = "authenticate"
                => Carried(calls[Len(calls)])
                       = <<frames[1].username, frames[1].password>>
           /\ frames[1].m = "id" => Carried(calls[Len(calls)]) = Account

C19_Witness ==
    /\ ops = <<"authenticate", "close", "id">>
    /\ LoginOnWire
    /\ frames[1].m = "id"
    /\ IsLogin(calls[1]) /\ Carried(calls[1]) = <<"guest", "guest">>
    /\ Carried(calls[Len(calls)]) = Account
    /\ <<username, password>> = Account
====
